---- MODULE Spec2Model ----
(***************************************************************************)
(* Background service worker of the Pomodoro timer extension               *)
(* (src/src/background/index.ts): the persisted timer snapshot, the time   *)
(* projection computeTimeLeft, the transition operations, the alarm        *)
(* handler, the start-up restore and the message router.                   *)
(*                                                                         *)
(* Encodings.                                                              *)
(*   - A nullable / optional value is a sequence of length 0 or 1:         *)
(*     NULL == <<>> is null/undefined, <<v>> is the value v.               *)
(*   - Instants and Date.now() are integers in milliseconds.               *)
(*   - A JavaScript number that may be fractional or non-finite (the       *)
(*     SET_DURATION payload) is a record [kind, tenths]: kind is "finite", *)
(*     "NaN", "Infinity" or "-Infinity"; a finite number is tenths/Tenths. *)
(*   - chrome.alarms delays and periods, given in minutes by the code, are *)
(*     kept in milliseconds (minutes * 60000), which is exact for          *)
(*     timeLeft/60, 0.08 and 1.                                            *)
(***************************************************************************)
EXTENDS Integers, Sequences, FiniteSets, TLC

VARIABLES
    storage,        \* chrome.storage.local[STORAGE_KEY]: NULL or <<snapshot>>
    alarm,          \* chrome.alarms entry named ALARM_NAME: NULL or <<[delayMs, periodMs]>>
    notifications,  \* every chrome.notifications.create call so far, in order
    now,            \* Date.now()
    event,          \* the handler invocation that produced this state
    effect,         \* the collaborator calls and results of that invocation
    started,        \* history: NULL or <<[t0, R, duration]>> of the Start still in force
    alive,          \* whether a service worker instance is running
    tasks,          \* the handler invocations in flight in that instance, in order of arrival
    sent,           \* the messages the last call of a front-end hook action sent
    stopped,        \* history: a stopping request was answered and no START came since
    owed            \* history: an expiry was stored and no signal was emitted since

vars == <<storage, alarm, notifications, now, event, effect, started,
          alive, tasks, sent, stopped, owed>>

\* what only the step-by-step and the front-end specifications change
procVars == <<alive, tasks, sent, stopped, owed>>

(***************************************************************************)
(* Bounds of the model.                                                    *)
(***************************************************************************)
MaxNow == 3000          \* the clock runs over 0..MaxNow milliseconds
TickMs == 500           \* granularity of the clock
MaxDuration == 2        \* request payloads carry durations in -MaxDuration..MaxDuration
Tenths == 10            \* resolution of a fractional number: a finite number is tenths/Tenths

(***************************************************************************)
(* Program constants.                                                      *)
(***************************************************************************)
ALARM_NAME == "pomodoro-timer"
OTHER_ALARM_NAME == "some-other-alarm"
MS_PER_SECOND == 1000
MS_PER_MINUTE == 60000

NULL == <<>>

Max(a, b) == IF a >= b THEN a ELSE b

Modes == {"work", "break"}

DEFAULT_TIMER_STATE ==
    [duration  |-> 25 * 60,
     timeLeft  |-> 25 * 60,
     isRunning |-> FALSE,
     startTime |-> NULL,
     mode      |-> "work"]

(***************************************************************************)
(* JavaScript numbers of the SET_DURATION payload.                         *)
(***************************************************************************)
Finite(tenths) == [kind |-> "finite", tenths |-> tenths]
NaN == [kind |-> "NaN", tenths |-> 0]
PlusInfinity == [kind |-> "Infinity", tenths |-> 0]
MinusInfinity == [kind |-> "-Infinity", tenths |-> 0]
FromInt(i) == Finite(i * Tenths)

NumberIsFinite(x) == x.kind = "finite"
\* mutant: Math.round
MathRound(x) == (2 * x.tenths + Tenths) \div (2 * Tenths)

\* Math.floor of a finite number (\div rounds towards minus infinity)
MathFloor(x) == x.tenths \div Tenths
\* the value of a finite number that is an integer
IntegerValue(x) == x.tenths \div Tenths

(***************************************************************************)
(* Storage access.                                                         *)
(***************************************************************************)
getTimerState(st) == IF st = NULL THEN DEFAULT_TIMER_STATE ELSE st[1]

(***************************************************************************)
(* Time projection.                                                        *)
(***************************************************************************)
\* mutant: the elapsed seconds are rounded up
computeTimeLeft_RoundsUp(state, t) ==
    IF ~state.isRunning \/ state.startTime = NULL
    THEN state.timeLeft
    ELSE LET elapsed == (t - state.startTime[1] + MS_PER_SECOND - 1) \div MS_PER_SECOND
         IN  Max(0, state.timeLeft - elapsed)

\* mutant: the elapsed time is taken with the wrong sign
computeTimeLeft_Backwards(state, t) ==
    IF ~state.isRunning \/ state.startTime = NULL
    THEN state.timeLeft
    ELSE LET elapsed == (state.startTime[1] - t) \div MS_PER_SECOND
         IN  Max(0, state.timeLeft - elapsed)

\* mutant: Math.round in place of Math.floor
computeTimeLeft_Rounds(state, t) ==
    IF ~state.isRunning \/ state.startTime = NULL
    THEN state.timeLeft
    ELSE LET elapsed == (2 * (t - state.startTime[1]) + MS_PER_SECOND)
                            \div (2 * MS_PER_SECOND)
         IN  Max(0, state.timeLeft - elapsed)

computeTimeLeft(state, t) ==
    IF ~state.isRunning \/ state.startTime = NULL
    THEN state.timeLeft
    ELSE LET elapsed == (t - state.startTime[1]) \div MS_PER_SECOND
         IN  Max(0, state.timeLeft - elapsed)

(***************************************************************************)
(* Collaborator calls.                                                     *)
(***************************************************************************)
\* mutant: no minimum delay
delayInMinutes_NoMinimum(timeLeft) == timeLeft * MS_PER_SECOND

\* Math.max(timeLeft / 60, 0.08) minutes, in milliseconds
delayInMinutes(timeLeft) ==
    Max(timeLeft * MS_PER_SECOND, (8 * MS_PER_MINUTE) \div 100)

\* mutant: the alarm is created without a period
AlarmsCreate_NoPeriod(timeLeft) ==
    [op |-> "create", name |-> ALARM_NAME,
     delayMs |-> delayInMinutes(timeLeft), periodMs |-> 0]

AlarmsCreate(timeLeft) ==
    [op |-> "create", name |-> ALARM_NAME,
     delayMs |-> delayInMinutes(timeLeft), periodMs |-> 1 * MS_PER_MINUTE]

AlarmsClear ==
    [op |-> "clear", name |-> ALARM_NAME, delayMs |-> 0, periodMs |-> 0]

\* mutant: the texts of the two modes are exchanged
showTimerNotification_Swapped(mode) ==
    [title   |-> IF mode = "break" THEN "Work session complete!"
                 ELSE "Break is over!",
     message |-> IF mode = "break" THEN "Great job! Time to take a break."
                 ELSE "Break finished. Ready to focus again?"]

showTimerNotification(mode) ==
    [title   |-> IF mode = "work" THEN "Work session complete!"
                 ELSE "Break is over!",
     message |-> IF mode = "work" THEN "Great job! Time to take a break."
                 ELSE "Break finished. Ready to focus again?"]

\* What one handler invocation did: the number of storage reads, the
\* snapshot written (if any), the alarms call (if any), the notification
\* (if any), the value returned and the responses sent.
Eff(reads, write, alarmOp, notify, ret) ==
    [reads |-> reads, write |-> write, alarmOp |-> alarmOp,
     notify |-> notify, ret |-> ret, replies |-> <<>>]

(***************************************************************************)
(* Transition operations.  Each takes the storage content and the instant  *)
(* of the call and yields what the call did.                               *)
(***************************************************************************)
\* mutant: a running timer is started again
startTimer_Restarts(st, t) ==
    LET state == getTimerState(st) IN
    IF state.timeLeft <= 0 THEN Eff(1, NULL, NULL, NULL, <<state>>)
    ELSE LET updatedState ==
                 [state EXCEPT !.isRunning = TRUE, !.startTime = <<t>>]
         IN  Eff(1, <<updatedState>>,
                 <<AlarmsCreate(updatedState.timeLeft)>>, NULL,
                 <<updatedState>>)

\* mutant: the timeLeft check is missing
startTimer_StartsAtZero(st, t) ==
    LET state == getTimerState(st) IN
    IF state.isRunning THEN Eff(1, NULL, NULL, NULL, <<state>>)
    ELSE LET updatedState ==
                 [state EXCEPT !.isRunning = TRUE, !.startTime = <<t>>]
         IN  Eff(1, <<updatedState>>,
                 <<AlarmsCreate(updatedState.timeLeft)>>, NULL,
                 <<updatedState>>)

startTimer(st, t) ==
    LET state == getTimerState(st) IN
    IF state.isRunning THEN Eff(1, NULL, NULL, NULL, <<state>>)
    ELSE IF state.timeLeft <= 0 THEN Eff(1, NULL, NULL, NULL, <<state>>)
    ELSE LET updatedState ==
                 [state EXCEPT !.isRunning = TRUE, !.startTime = <<t>>]
         IN  Eff(1, <<updatedState>>,
                 <<AlarmsCreate(updatedState.timeLeft)>>, NULL,
                 <<updatedState>>)

\* mutant: the isRunning check is missing
pauseTimer_Always(st, t) ==
    LET state == getTimerState(st)
        remaining == computeTimeLeft(state, t)
        updatedState ==
            [state EXCEPT !.isRunning = FALSE,
                          !.timeLeft = remaining,
                          !.startTime = NULL]
    IN  Eff(1, <<updatedState>>, <<AlarmsClear>>, NULL, <<updatedState>>)

\* mutant: startTime is not cleared
pauseTimer_KeepsStartTime(st, t) ==
    LET state == getTimerState(st) IN
    IF ~state.isRunning THEN Eff(1, NULL, NULL, NULL, <<state>>)
    ELSE LET remaining == computeTimeLeft(state, t)
             updatedState ==
                 [state EXCEPT !.isRunning = FALSE,
                               !.timeLeft = remaining]
         IN  Eff(1, <<updatedState>>, <<AlarmsClear>>, NULL, <<updatedState>>)

pauseTimer(st, t) ==
    LET state == getTimerState(st) IN
    IF ~state.isRunning THEN Eff(1, NULL, NULL, NULL, <<state>>)
    ELSE LET remaining == computeTimeLeft(state, t)
             updatedState ==
                 [state EXCEPT !.isRunning = FALSE,
                               !.timeLeft = remaining,
                               !.startTime = NULL]
         IN  Eff(1, <<updatedState>>, <<AlarmsClear>>, NULL, <<updatedState>>)

\* mutant: the alarm is cleared only when the timer was running
resetTimer_ClearsIfRunning(st, t, duration) ==
    LET state == getTimerState(st)
        resetDuration == IF duration = NULL THEN state.duration
                         ELSE IntegerValue(duration[1])
        updatedState ==
            [state EXCEPT !.duration = resetDuration,
                          !.timeLeft = resetDuration,
                          !.isRunning = FALSE,
                          !.startTime = NULL]
    IN  Eff(1, <<updatedState>>,
            IF state.isRunning THEN <<AlarmsClear>> ELSE NULL,
            NULL, <<updatedState>>)

\* mutant: the duration field is not updated
resetTimer_KeepsDuration(st, t, duration) ==
    LET state == getTimerState(st)
        resetDuration == IF duration = NULL THEN state.duration
                         ELSE IntegerValue(duration[1])
        updatedState ==
            [state EXCEPT !.timeLeft = resetDuration,
                          !.isRunning = FALSE,
                          !.startTime = NULL]
    IN  Eff(1, <<updatedState>>, <<AlarmsClear>>, NULL, <<updatedState>>)

\* duration: NULL (undefined) or <<d>>, d an integer
resetTimer(st, t, duration) ==
    LET state == getTimerState(st)
        resetDuration == IF duration = NULL THEN state.duration
                         ELSE IntegerValue(duration[1])
        updatedState ==
            [state EXCEPT !.duration = resetDuration,
                          !.timeLeft = resetDuration,
                          !.isRunning = FALSE,
                          !.startTime = NULL]
    IN  Eff(1, <<updatedState>>, <<AlarmsClear>>, NULL, <<updatedState>>)

(***************************************************************************)
(* Alarm handler.                                                          *)
(***************************************************************************)
\* mutant: startTime is not moved to the instant of the firing
handleAlarm_KeepsAnchor(st, t, name) ==
    IF name # ALARM_NAME THEN Eff(0, NULL, NULL, NULL, NULL)
    ELSE
    LET state == getTimerState(st) IN
    IF ~state.isRunning THEN Eff(1, NULL, NULL, NULL, NULL)
    ELSE LET remaining == computeTimeLeft(state, t) IN
         IF remaining <= 0
         THEN LET finishedState ==
                      [state EXCEPT !.isRunning = FALSE,
                                    !.timeLeft = 0,
                                    !.startTime = NULL]
              IN  Eff(1, <<finishedState>>, <<AlarmsClear>>,
                      <<showTimerNotification(state.mode)>>, NULL)
         ELSE LET updatedState == [state EXCEPT !.timeLeft = remaining]
              IN  Eff(1, <<updatedState>>, NULL, NULL, NULL)

\* mutant: the isRunning check is missing
handleAlarm_NoRunningCheck(st, t, name) ==
    IF name # ALARM_NAME THEN Eff(0, NULL, NULL, NULL, NULL)
    ELSE
    LET state == getTimerState(st)
        remaining == computeTimeLeft(state, t) IN
    IF remaining <= 0
    THEN LET finishedState ==
                 [state EXCEPT !.isRunning = FALSE,
                               !.timeLeft = 0,
                               !.startTime = NULL]
         IN  Eff(1, <<finishedState>>, <<AlarmsClear>>,
                 <<showTimerNotification(state.mode)>>, NULL)
    ELSE LET updatedState ==
                 [state EXCEPT !.timeLeft = remaining,
                               !.startTime = <<t>>]
         IN  Eff(1, <<updatedState>>, NULL, NULL, NULL)

\* mutant: the alarm name is not checked
handleAlarm_NoNameCheck(st, t, name) ==
    LET state == getTimerState(st) IN
    IF ~state.isRunning THEN Eff(1, NULL, NULL, NULL, NULL)
    ELSE LET remaining == computeTimeLeft(state, t) IN
         IF remaining <= 0
         THEN LET finishedState ==
                      [state EXCEPT !.isRunning = FALSE,
                                    !.timeLeft = 0,
                                    !.startTime = NULL]
              IN  Eff(1, <<finishedState>>, <<AlarmsClear>>,
                      <<showTimerNotification(state.mode)>>, NULL)
         ELSE LET updatedState ==
                      [state EXCEPT !.timeLeft = remaining,
                                    !.startTime = <<t>>]
              IN  Eff(1, <<updatedState>>, NULL, NULL, NULL)

\* mutant: the timer finishes only when remaining < 0
handleAlarm_StrictExpiry(st, t, name) ==
    IF name # ALARM_NAME THEN Eff(0, NULL, NULL, NULL, NULL)
    ELSE
    LET state == getTimerState(st) IN
    IF ~state.isRunning THEN Eff(1, NULL, NULL, NULL, NULL)
    ELSE LET remaining == computeTimeLeft(state, t) IN
         IF remaining < 0
         THEN LET finishedState ==
                      [state EXCEPT !.isRunning = FALSE,
                                    !.timeLeft = 0,
                                    !.startTime = NULL]
              IN  Eff(1, <<finishedState>>, <<AlarmsClear>>,
                      <<showTimerNotification(state.mode)>>, NULL)
         ELSE LET updatedState ==
                      [state EXCEPT !.timeLeft = remaining,
                                    !.startTime = <<t>>]
              IN  Eff(1, <<updatedState>>, NULL, NULL, NULL)

\* mutant: the alarm is not cleared when the timer finishes
handleAlarm_KeepsAlarm(st, t, name) ==
    IF name # ALARM_NAME THEN Eff(0, NULL, NULL, NULL, NULL)
    ELSE
    LET state == getTimerState(st) IN
    IF ~state.isRunning THEN Eff(1, NULL, NULL, NULL, NULL)
    ELSE LET remaining == computeTimeLeft(state, t) IN
         IF remaining <= 0
         THEN LET finishedState ==
                      [state EXCEPT !.isRunning = FALSE,
                                    !.timeLeft = 0,
                                    !.startTime = NULL]
              IN  Eff(1, <<finishedState>>, NULL,
                      <<showTimerNotification(state.mode)>>, NULL)
         ELSE LET updatedState ==
                      [state EXCEPT !.timeLeft = remaining,
                                    !.startTime = <<t>>]
              IN  Eff(1, <<updatedState>>, NULL, NULL, NULL)

handleAlarm(st, t, name) ==
    IF name # ALARM_NAME THEN Eff(0, NULL, NULL, NULL, NULL)
    ELSE
    LET state == getTimerState(st) IN
    IF ~state.isRunning THEN Eff(1, NULL, NULL, NULL, NULL)
    ELSE LET remaining == computeTimeLeft(state, t) IN
         IF remaining <= 0
         THEN LET finishedState ==
                      [state EXCEPT !.isRunning = FALSE,
                                    !.timeLeft = 0,
                                    !.startTime = NULL]
              IN  Eff(1, <<finishedState>>, <<AlarmsClear>>,
                      <<showTimerNotification(state.mode)>>, NULL)
         ELSE LET updatedState ==
                      [state EXCEPT !.timeLeft = remaining,
                                    !.startTime = <<t>>]
              IN  Eff(1, <<updatedState>>, NULL, NULL, NULL)

(***************************************************************************)
(* Restore on service worker start-up.                                     *)
(***************************************************************************)
\* mutant: no notification when the timer expired while inactive
restoreTimerState_Silent(st, t) ==
    LET state == getTimerState(st) IN
    IF ~state.isRunning \/ state.startTime = NULL
    THEN Eff(1, NULL, NULL, NULL, <<state>>)
    ELSE LET remaining == computeTimeLeft(state, t) IN
         IF remaining <= 0
         THEN LET finishedState ==
                      [state EXCEPT !.isRunning = FALSE,
                                    !.timeLeft = 0,
                                    !.startTime = NULL]
              IN  Eff(1, <<finishedState>>, NULL, NULL, <<finishedState>>)
         ELSE LET restoredState ==
                      [state EXCEPT !.timeLeft = remaining,
                                    !.startTime = <<t>>]
              IN  Eff(1, <<restoredState>>, <<AlarmsCreate(remaining)>>,
                      NULL, <<restoredState>>)

\* mutant: startTime is not moved to the instant of the restore
restoreTimerState_KeepsAnchor(st, t) ==
    LET state == getTimerState(st) IN
    IF ~state.isRunning \/ state.startTime = NULL
    THEN Eff(1, NULL, NULL, NULL, <<state>>)
    ELSE LET remaining == computeTimeLeft(state, t) IN
         IF remaining <= 0
         THEN LET finishedState ==
                      [state EXCEPT !.isRunning = FALSE,
                                    !.timeLeft = 0,
                                    !.startTime = NULL]
              IN  Eff(1, <<finishedState>>, NULL,
                      <<showTimerNotification(state.mode)>>,
                      <<finishedState>>)
         ELSE LET restoredState == [state EXCEPT !.timeLeft = remaining]
              IN  Eff(1, <<restoredState>>, <<AlarmsCreate(remaining)>>,
                      NULL, <<restoredState>>)

restoreTimerState(st, t) ==
    LET state == getTimerState(st) IN
    IF ~state.isRunning \/ state.startTime = NULL
    THEN Eff(1, NULL, NULL, NULL, <<state>>)
    ELSE LET remaining == computeTimeLeft(state, t) IN
         IF remaining <= 0
         THEN LET finishedState ==
                      [state EXCEPT !.isRunning = FALSE,
                                    !.timeLeft = 0,
                                    !.startTime = NULL]
              IN  Eff(1, <<finishedState>>, NULL,
                      <<showTimerNotification(state.mode)>>,
                      <<finishedState>>)
         ELSE LET restoredState ==
                      [state EXCEPT !.timeLeft = remaining,
                                    !.startTime = <<t>>]
              IN  Eff(1, <<restoredState>>, <<AlarmsCreate(remaining)>>,
                      NULL, <<restoredState>>)

(***************************************************************************)
(* Message router.  A message is [type, duration, mode]; duration and mode *)
(* are the optional fields of its payload (NULL when the payload or the    *)
(* field is absent); duration is a number, an integer for RESET.           *)
(***************************************************************************)
Message(type, duration, mode) ==
    [type |-> type, duration |-> duration, mode |-> mode]

\* the SET_DURATION case
setDuration(st, t, duration) ==
    LET current == getTimerState(st)
        rawDuration == IF duration = NULL THEN FromInt(current.duration)
                       ELSE duration[1]
        floored == IF NumberIsFinite(rawDuration) THEN MathFloor(rawDuration)
                   ELSE 0
        newDuration == IF floored > 0 THEN floored ELSE current.duration
        state == [current EXCEPT !.duration = newDuration,
                                 !.timeLeft = newDuration,
                                 !.isRunning = FALSE,
                                 !.startTime = NULL]
    IN  Eff(1, <<state>>, <<AlarmsClear>>, NULL, <<state>>)

\* mutant: a change of mode restores timeLeft to the full duration
setMode_ResetsOnChange(st, t, mode) ==
    LET current == getTimerState(st)
        newMode == IF mode = NULL THEN current.mode ELSE mode[1]
        state == [current EXCEPT !.mode = newMode,
                                 !.timeLeft = IF newMode = current.mode
                                              THEN current.timeLeft
                                              ELSE current.duration]
    IN  Eff(1, <<state>>, NULL, NULL, <<state>>)

\* mutant: changing the mode stops the timer
setMode_StopsTimer(st, t, mode) ==
    LET current == getTimerState(st)
        newMode == IF mode = NULL THEN current.mode ELSE mode[1]
        state == [current EXCEPT !.mode = newMode,
                                 !.isRunning = FALSE,
                                 !.startTime = NULL]
    IN  Eff(1, <<state>>, NULL, NULL, <<state>>)

\* the SET_MODE case
setMode(st, t, mode) ==
    LET current == getTimerState(st)
        newMode == IF mode = NULL THEN current.mode ELSE mode[1]
        state == [current EXCEPT !.mode = newMode]
    IN  Eff(1, <<state>>, NULL, NULL, <<state>>)

\* mutant: the recomputed snapshot is saved
getState_Persists(st, t) ==
    LET raw == getTimerState(st)
        state == [raw EXCEPT !.timeLeft = computeTimeLeft(raw, t)]
    IN  Eff(1, <<state>>, NULL, NULL, <<state>>)

\* the GET_STATE case
getState(st, t) ==
    LET raw == getTimerState(st)
        state == [raw EXCEPT !.timeLeft = computeTimeLeft(raw, t)]
    IN  Eff(1, NULL, NULL, NULL, <<state>>)

\* mutant: the default case recomputes timeLeft as GET_STATE does
unknownMessage_Projects(st, t) ==
    LET raw == getTimerState(st)
        state == [raw EXCEPT !.timeLeft = computeTimeLeft(raw, t)]
    IN  Eff(1, NULL, NULL, NULL, <<state>>)

\* the default case
unknownMessage(st, t) ==
    Eff(1, NULL, NULL, NULL, <<getTimerState(st)>>)

\* mutant: a case that writes nothing returns before the response is sent
sendResponse_SkipsNoOps(e) ==
    IF e.write = NULL THEN [e EXCEPT !.ret = NULL]
    ELSE [e EXCEPT !.replies = e.ret, !.ret = NULL]

\* sendResponse({ state }) once, after the switch; the handler returns void
sendResponse(e) == [e EXCEPT !.replies = e.ret, !.ret = NULL]

handleMessage(st, t, message) ==
    sendResponse(
        CASE message.type = "GET_STATE"    -> getState(st, t)
          [] message.type = "START"        -> startTimer(st, t)
          [] message.type = "PAUSE"        -> pauseTimer(st, t)
          [] message.type = "RESET"        -> resetTimer(st, t, message.duration)
          [] message.type = "SET_MODE"     -> setMode(st, t, message.mode)
          [] message.type = "SET_DURATION" -> setDuration(st, t, message.duration)
          [] OTHER                         -> unknownMessage(st, t))

(***************************************************************************)
(* The collaborators: what a handler's calls do to storage, to the alarm   *)
(* registry and to the notification sink.                                  *)
(***************************************************************************)
StorageAfter(st, e) == IF e.write = NULL THEN st ELSE e.write

AlarmAfter(al, e) ==
    IF e.alarmOp = NULL THEN al
    ELSE IF e.alarmOp[1].op = "create"
         THEN <<[delayMs |-> e.alarmOp[1].delayMs,
                 periodMs |-> e.alarmOp[1].periodMs]>>
         ELSE NULL

\* a handler invocation: the handler, its message (handleMessage) and its
\* alarm name (handleAlarm)
Event(handler, message, name) ==
    [handler |-> handler, message |-> message, name |-> name]

\* the Start in force (history): recorded when a START starts the timer
\* at instant t, kept by SET_MODE, dropped by every other handler that
\* writes the snapshot
StartedAfter(ev, e, t) ==
    IF e.write = NULL THEN started
    ELSE IF ev.handler = "handleMessage" /\ ev.message.type = "START"
         THEN LET idle == getTimerState(storage) IN
              <<[t0 |-> t, R |-> idle.timeLeft, duration |-> idle.duration]>>
    ELSE IF ev.handler = "handleMessage" /\ ev.message.type = "SET_MODE"
         THEN started
    ELSE NULL

\* the handler invocation ev runs at instant t and does e
Apply(ev, e, t) ==
    /\ storage' = StorageAfter(storage, e)
    /\ alarm' = AlarmAfter(alarm, e)
    /\ notifications' = notifications \o e.notify
    /\ effect' = e
    /\ started' = StartedAfter(ev, e, t)
    /\ now' = t
    /\ UNCHANGED procVars

\* chrome.runtime.onMessage delivers the message m
Deliver(m) == Apply(Event("handleMessage", m, ""), handleMessage(storage, now, m), now)

(***************************************************************************)
(* Inputs.                                                                 *)
(***************************************************************************)
Opt(S) == {NULL} \cup {<<x>> : x \in S}

ResetDurations == (0 - MaxDuration)..MaxDuration

\* finite numbers: integers and fractions on both sides of 0 and of 1
FiniteNumbers ==
    {Finite(x) : x \in {0 - MaxDuration * Tenths, 0, 3}
                       \cup {d * Tenths : d \in 1..MaxDuration}
                       \cup {d * Tenths + 7 : d \in 1..MaxDuration}}

Numbers == FiniteNumbers \cup {NaN, PlusInfinity, MinusInfinity}

NoEffect == Eff(0, NULL, NULL, NULL, NULL)
NoMessage == Message("", NULL, NULL)

\* one service worker instance with no handler in flight
InitProc ==
    /\ alive = TRUE
    /\ tasks = <<>>
    /\ sent = <<>>
    /\ stopped = FALSE
    /\ owed = FALSE

(***************************************************************************)
(* The service worker: handlers run one at a time.                         *)
(***************************************************************************)
Init ==
    /\ storage = NULL
    /\ alarm = NULL
    /\ notifications = <<>>
    /\ now = 0
    /\ event = Event("install", NoMessage, "")
    /\ effect = NoEffect
    /\ started = NULL
    /\ InitProc

\* time passes
Tick ==
    /\ now + TickMs <= MaxNow
    /\ now' = now + TickMs
    /\ event' = Event("tick", NoMessage, "")
    /\ effect' = NoEffect
    /\ UNCHANGED <<storage, alarm, notifications, started>>
    /\ UNCHANGED procVars

OnGetState ==
    /\ event' = Event("handleMessage", Message("GET_STATE", NULL, NULL), "")
    /\ Deliver(event'.message)

OnStart ==
    /\ event' = Event("handleMessage", Message("START", NULL, NULL), "")
    /\ Deliver(event'.message)

OnPause ==
    /\ event' = Event("handleMessage", Message("PAUSE", NULL, NULL), "")
    /\ Deliver(event'.message)

OnReset ==
    /\ \E d \in Opt({FromInt(i) : i \in ResetDurations}) :
          event' = Event("handleMessage", Message("RESET", d, NULL), "")
    /\ Deliver(event'.message)

OnSetMode ==
    /\ \E m \in Opt(Modes) :
          event' = Event("handleMessage", Message("SET_MODE", NULL, m), "")
    /\ Deliver(event'.message)

OnSetDuration ==
    /\ \E d \in Opt(Numbers) :
          event' = Event("handleMessage", Message("SET_DURATION", d, NULL), "")
    /\ Deliver(event'.message)

\* a message whose type is none of the six
OnUnknown ==
    /\ event' = Event("handleMessage", Message("UNKNOWN", NULL, NULL), "")
    /\ Deliver(event'.message)

\* chrome.alarms.onAlarm fires.  The handler may be invoked at any instant
\* and for any alarm name: chrome.alarms gives no timing guarantee, and a
\* firing dispatched before an alarms.clear may be handled after it.
OnAlarm ==
    /\ \E n \in {ALARM_NAME, OTHER_ALARM_NAME} :
          event' = Event("handleAlarm", NoMessage, n)
    /\ Apply(event', handleAlarm(storage, now, event'.name), now)

\* the service worker is started again
OnStartup ==
    /\ event' = Event("restoreTimerState", NoMessage, "")
    /\ Apply(event', restoreTimerState(storage, now), now)

Next ==
    \/ Tick
    \/ OnGetState \/ OnStart \/ OnPause \/ OnReset
    \/ OnSetMode \/ OnSetDuration \/ OnUnknown
    \/ OnAlarm
    \/ OnStartup

Spec == Init /\ [][Next]_vars

(***************************************************************************)
(* End to end: an idle timer is started and the alarm then fires every     *)
(* minute for as long as it is registered; nothing else happens.           *)
(***************************************************************************)
MaxE2ESeconds == 150    \* the idle timer has 1..MaxE2ESeconds seconds left

InitE2E ==
    /\ \E R \in 1..MaxE2ESeconds, m \in Modes :
         \E D \in {R, DEFAULT_TIMER_STATE.duration} :
            storage = <<[duration |-> D, timeLeft |-> R, isRunning |-> FALSE,
                         startTime |-> NULL, mode |-> m]>>
    /\ alarm = NULL
    /\ notifications = <<>>
    /\ now = 0
    /\ event = Event("install", NoMessage, "")
    /\ effect = NoEffect
    /\ started = NULL
    /\ InitProc

E2EStart ==
    /\ event.handler = "install"
    /\ event' = Event("handleMessage", Message("START", NULL, NULL), "")
    /\ Deliver(event'.message)

\* the registered alarm fires one period after the previous handler ran
E2EFire ==
    /\ event.handler # "install"
    /\ alarm # NULL
    /\ event' = Event("handleAlarm", NoMessage, ALARM_NAME)
    /\ LET t == now + alarm[1].periodMs IN
       Apply(event', handleAlarm(storage, t, ALARM_NAME), t)

NextE2E == E2EStart \/ E2EFire

SpecE2E == InitE2E /\ [][NextE2E]_vars /\ WF_vars(NextE2E)

(***************************************************************************)
(* Downtime: a timer is started and the service worker is then inactive    *)
(* for seconds or minutes before it starts up again (its storage and its   *)
(* alarm survive); alarms may be handled in between.                       *)
(***************************************************************************)
MaxDownMinutes == 10    \* the downtime lasts up to MaxDownMinutes minutes

\* seconds left on the timer that is started
DowntimeSeconds == {1, 2, 8 * 60, 10 * 60}

\* the state START leaves at instant 0 from an idle full-length timer
InitDowntime ==
    \E R \in DowntimeSeconds, m \in Modes :
        LET idle == [duration |-> R, timeLeft |-> R, isRunning |-> FALSE,
                     startTime |-> NULL, mode |-> m]
            ev == Event("handleMessage", Message("START", NULL, NULL), "")
            e == handleMessage(<<idle>>, 0, ev.message)
        IN  /\ storage = StorageAfter(<<idle>>, e)
            /\ alarm = AlarmAfter(NULL, e)
            /\ notifications = <<>>
            /\ now = 0
            /\ event = ev
            /\ effect = e
            /\ started = <<[t0 |-> 0, R |-> R, duration |-> R]>>
            /\ InitProc

\* a fraction of a second passes (up to three after each whole minute)
DowntimeTick ==
    /\ (now % MS_PER_MINUTE) + TickMs <= 3 * TickMs
    /\ now' = now + TickMs
    /\ event' = Event("tick", NoMessage, "")
    /\ effect' = NoEffect
    /\ UNCHANGED <<storage, alarm, notifications, started>>
    /\ UNCHANGED procVars

\* a minute passes
DowntimeMinute ==
    /\ now + MS_PER_MINUTE <= MaxDownMinutes * MS_PER_MINUTE + 3 * TickMs
    /\ now' = now + MS_PER_MINUTE
    /\ event' = Event("tick", NoMessage, "")
    /\ effect' = NoEffect
    /\ UNCHANGED <<storage, alarm, notifications, started>>
    /\ UNCHANGED procVars

NextDowntime == DowntimeTick \/ DowntimeMinute \/ OnAlarm \/ OnStartup

SpecDowntime == InitDowntime /\ [][NextDowntime]_vars

(***************************************************************************)
(* Time projection on its own: any stored snapshot of the type             *)
(* TimerStorageState, read through GET_STATE as time passes.               *)
(***************************************************************************)
MaxProjSeconds == 3     \* the snapshot has 0..MaxProjSeconds seconds left
MaxProjTicks == 9       \* the clock runs over 0..MaxProjTicks ticks of TickMs

ProjInstants == {k * TickMs : k \in 0..MaxProjTicks}

InitProjection ==
    /\ \E tl \in 0..MaxProjSeconds, r \in BOOLEAN,
          st \in Opt(ProjInstants), m \in Modes :
          storage = <<[duration |-> MaxProjSeconds, timeLeft |-> tl,
                       isRunning |-> r, startTime |-> st, mode |-> m]>>
    /\ now \in ProjInstants
    /\ getTimerState(storage).startTime # NULL
          => now >= getTimerState(storage).startTime[1]
    /\ alarm = NULL
    /\ notifications = <<>>
    /\ event = Event("install", NoMessage, "")
    /\ effect = NoEffect
    /\ started = NULL
    /\ InitProc

ProjectionTick ==
    /\ now + TickMs <= MaxProjTicks * TickMs
    /\ now' = now + TickMs
    /\ event' = Event("tick", NoMessage, "")
    /\ effect' = NoEffect
    /\ UNCHANGED <<storage, alarm, notifications, started>>
    /\ UNCHANGED procVars

NextProjection == ProjectionTick \/ OnGetState

SpecProjection == InitProjection /\ [][NextProjection]_vars

(***************************************************************************)
(* A running timer left to the alarm: no request arrives, and while the    *)
(* alarm is registered it fires after its delay or after its period of one *)
(* minute, on time or half a second late.                                  *)
(***************************************************************************)
MaxLiveSeconds == 130   \* the running timer has 1..MaxLiveSeconds seconds left

\* no firing is awaited after this instant: every timer has expired
LiveHorizon == MaxLiveSeconds * MS_PER_SECOND + 2 * MS_PER_MINUTE

\* the state START leaves at instant 0
InitLive ==
    \E R \in 1..MaxLiveSeconds, m \in Modes :
      \E D \in {R, MaxLiveSeconds} :
        LET idle == [duration |-> D, timeLeft |-> R, isRunning |-> FALSE,
                     startTime |-> NULL, mode |-> m]
            ev == Event("handleMessage", Message("START", NULL, NULL), "")
            e == handleMessage(<<idle>>, 0, ev.message)
        IN  /\ storage = StorageAfter(<<idle>>, e)
            /\ alarm = AlarmAfter(NULL, e)
            /\ notifications = <<>>
            /\ now = 0
            /\ event = ev
            /\ effect = e
            /\ started = <<[t0 |-> 0, R |-> R, duration |-> D]>>
            /\ InitProc

\* the registered alarm fires: the first time after its delay or after its
\* period, then after its period
LiveFire ==
    /\ alarm # NULL
    /\ now <= LiveHorizon
    /\ event' = Event("handleAlarm", NoMessage, ALARM_NAME)
    /\ \E late \in {0, TickMs} :
       \E wait \in {alarm[1].periodMs}
                    \cup (IF event.handler = "handleAlarm" THEN {}
                          ELSE {alarm[1].delayMs}) :
          LET t == now + wait + late IN
          Apply(event', handleAlarm(storage, t, ALARM_NAME), t)

NextLive == LiveFire

SpecLive == InitLive /\ [][NextLive]_vars /\ WF_vars(NextLive)

(***************************************************************************)
(* The front-end hook useTimer (src/src/hooks/useTimer.ts): its setDuration *)
(* action sends a message through chrome.runtime.sendMessage and awaits    *)
(* the response of the service worker.                                     *)
(***************************************************************************)
\* the messages setDuration(durationSeconds) sends
useTimer_setDuration(durationSeconds) ==
    <<Message("SET_DURATION", <<durationSeconds>>, NULL)>>

\* setDuration is called with some number (kept in the event's message as
\* the argument of the call); the service worker handles what it sent
HookSetDuration ==
    /\ \E d \in Numbers :
          event' = Event("useTimer.setDuration", Message("", <<d>>, NULL), "")
    /\ sent' = useTimer_setDuration(event'.message.duration[1])
    /\ LET e == IF sent' = <<>> THEN NoEffect
                ELSE handleMessage(storage, now, sent'[1])
       IN  /\ storage' = StorageAfter(storage, e)
           /\ alarm' = AlarmAfter(alarm, e)
           /\ notifications' = notifications \o e.notify
           /\ effect' = e
           /\ started' = StartedAfter(event', e, now)
    /\ UNCHANGED <<now, alive, tasks, stopped, owed>>

NextHook == Tick \/ OnStart \/ OnPause \/ HookSetDuration

SpecHook == Init /\ [][NextHook]_vars

(***************************************************************************)
(* Step by step.  Every handler is an async function: it runs up to its    *)
(* next await, and while the awaited collaborator call (storage.get,       *)
(* storage.set, alarms.create/clear, notifications.create) is pending the  *)
(* event loop may run a step of another handler.  The listeners return at  *)
(* once and restoreTimerState() is called without await, so nothing        *)
(* serialises the handlers.  The service worker may be terminated at any   *)
(* point; its handlers in flight are lost, the store, the alarm and the    *)
(* notifications are kept, and the next start calls restoreTimerState().   *)
(***************************************************************************)
MaxTasks == 2           \* at most MaxTasks handler invocations are in flight

\* a handler invocation that has not yet read the store
Task(ev) == [ev |-> ev, pc |-> "read", e |-> NoEffect]

\* what the handler of ev does when its storage.get resolves with st at t
HandlerEffect(ev, st, t) ==
    CASE ev.handler = "handleMessage"     -> handleMessage(st, t, ev.message)
      [] ev.handler = "handleAlarm"       -> handleAlarm(st, t, ev.name)
      [] ev.handler = "restoreTimerState" -> restoreTimerState(st, t)

\* the call a handler that does e awaits after the call pc: the write, then
\* the alarms call, then the notification, then the response
NextPc(e, pc) ==
    IF pc = "read" /\ e.write # NULL THEN "write"
    ELSE IF pc \in {"read", "write"} /\ e.alarmOp # NULL THEN "alarm"
    ELSE IF pc \in {"read", "write", "alarm"} /\ e.notify # NULL THEN "notify"
    ELSE IF pc # "reply" /\ e.replies # <<>> THEN "reply"
    ELSE "done"

Remove(seq, i) == SubSeq(seq, 1, i - 1) \o SubSeq(seq, i + 1, Len(seq))

\* the tasks after task i, which does e, has completed its call pc
TasksAfter(i, e, pc) ==
    IF NextPc(e, pc) = "done" THEN Remove(tasks, i)
    ELSE [tasks EXCEPT ![i] = [ev |-> tasks[i].ev, pc |-> NextPc(e, pc), e |-> e]]

IsStopRequest(ev) ==
    /\ ev.handler = "handleMessage"
    /\ ev.message.type \in {"PAUSE", "RESET", "SET_DURATION"}

IsStartRequest(ev) ==
    ev.handler = "handleMessage" /\ ev.message.type = "START"

\* an event is dispatched to its listener, which calls the handler
Arrive(ev) ==
    /\ alive
    /\ Len(tasks) < MaxTasks
    /\ tasks' = Append(tasks, Task(ev))
    /\ effect' = NoEffect
    /\ stopped' = (stopped /\ ~IsStartRequest(ev))
    /\ UNCHANGED <<storage, alarm, notifications, now, started, alive, sent, owed>>

ArriveStart ==
    /\ event' = Event("dispatch", Message("START", NULL, NULL), "")
    /\ Arrive(Event("handleMessage", event'.message, ""))

ArrivePause ==
    /\ event' = Event("dispatch", Message("PAUSE", NULL, NULL), "")
    /\ Arrive(Event("handleMessage", event'.message, ""))

ArriveReset ==
    /\ event' = Event("dispatch", Message("RESET", NULL, NULL), "")
    /\ Arrive(Event("handleMessage", event'.message, ""))

ArriveAlarm ==
    /\ event' = Event("dispatch", NoMessage, ALARM_NAME)
    /\ Arrive(Event("handleAlarm", NoMessage, event'.name))

\* storage.get resolves (reads are served in the order they were issued)
\* and the handler runs up to its next await
StepRead ==
    \E i \in 1..Len(tasks) :
        /\ tasks[i].pc = "read"
        /\ \A j \in 1..(i - 1) : tasks[j].pc # "read"
        /\ LET e == HandlerEffect(tasks[i].ev, storage, now) IN
            /\ event' = tasks[i].ev
            /\ effect' = [NoEffect EXCEPT !.reads = e.reads]
            /\ tasks' = TasksAfter(i, e, "read")
        /\ UNCHANGED <<storage, alarm, notifications, now, started,
                       alive, sent, stopped, owed>>

\* storage.set of a handler is done
StepWrite ==
    \E i \in 1..Len(tasks) :
        /\ tasks[i].pc = "write"
        /\ event' = tasks[i].ev
        /\ effect' = [NoEffect EXCEPT !.write = tasks[i].e.write]
        /\ storage' = tasks[i].e.write
        /\ tasks' = TasksAfter(i, tasks[i].e, "write")
        /\ owed' = (\/ owed
                    \/ /\ tasks[i].ev.handler \in {"handleAlarm", "restoreTimerState"}
                       /\ getTimerState(storage).isRunning
                       /\ ~tasks[i].e.write[1].isRunning)
        /\ UNCHANGED <<alarm, notifications, now, started, alive, sent, stopped>>

\* alarms.create or alarms.clear of a handler is done
StepAlarm ==
    \E i \in 1..Len(tasks) :
        /\ tasks[i].pc = "alarm"
        /\ event' = tasks[i].ev
        /\ effect' = [NoEffect EXCEPT !.alarmOp = tasks[i].e.alarmOp]
        /\ alarm' = AlarmAfter(alarm, tasks[i].e)
        /\ tasks' = TasksAfter(i, tasks[i].e, "alarm")
        /\ UNCHANGED <<storage, notifications, now, started,
                       alive, sent, stopped, owed>>

\* notifications.create of a handler is done
StepNotify ==
    \E i \in 1..Len(tasks) :
        /\ tasks[i].pc = "notify"
        /\ event' = tasks[i].ev
        /\ effect' = [NoEffect EXCEPT !.notify = tasks[i].e.notify]
        /\ notifications' = notifications \o tasks[i].e.notify
        /\ tasks' = TasksAfter(i, tasks[i].e, "notify")
        /\ owed' = FALSE
        /\ UNCHANGED <<storage, alarm, now, started, alive, sent, stopped>>

\* sendResponse of handleMessage
StepReply ==
    \E i \in 1..Len(tasks) :
        /\ tasks[i].pc = "reply"
        /\ event' = tasks[i].ev
        /\ effect' = [NoEffect EXCEPT !.replies = tasks[i].e.replies]
        /\ tasks' = TasksAfter(i, tasks[i].e, "reply")
        /\ stopped' = (\/ stopped
                       \/ /\ IsStopRequest(tasks[i].ev)
                          /\ ~tasks[i].e.replies[1].isRunning
                          /\ \A j \in 1..Len(tasks) : ~IsStartRequest(tasks[j].ev))
        /\ UNCHANGED <<storage, alarm, notifications, now, started,
                       alive, sent, owed>>

\* the service worker is terminated
Die ==
    /\ alive
    /\ alive' = FALSE
    /\ tasks' = <<>>
    /\ event' = Event("terminate", NoMessage, "")
    /\ effect' = NoEffect
    /\ UNCHANGED <<storage, alarm, notifications, now, started,
                   sent, stopped, owed>>

\* the service worker is started: the top-level script registers the
\* listeners and calls restoreTimerState()
StartProcess ==
    /\ ~alive
    /\ alive' = TRUE
    /\ tasks' = <<Task(Event("restoreTimerState", NoMessage, ""))>>
    /\ event' = Event("start", NoMessage, "")
    /\ effect' = NoEffect
    /\ UNCHANGED <<storage, alarm, notifications, now, started,
                   sent, stopped, owed>>

\* an idle timer of 1..MaxDuration seconds (as SET_DURATION leaves it)
InitSteps ==
    /\ \E R \in 1..MaxDuration :
          storage = <<[duration |-> R, timeLeft |-> R, isRunning |-> FALSE,
                       startTime |-> NULL, mode |-> "work"]>>
    /\ alarm = NULL
    /\ notifications = <<>>
    /\ now = 0
    /\ event = Event("install", NoMessage, "")
    /\ effect = NoEffect
    /\ started = NULL
    /\ InitProc

NextSteps ==
    \/ Tick
    \/ ArriveStart \/ ArrivePause \/ ArriveReset \/ ArriveAlarm
    \/ StepRead \/ StepWrite \/ StepAlarm \/ StepNotify \/ StepReply
    \/ Die
    \/ StartProcess

SpecSteps == InitSteps /\ [][NextSteps]_vars

\* no handler is in flight and the restore of this instance is complete
Quiescent == alive /\ tasks = <<>>

(***************************************************************************)
(* Overlap at a process start.  An alarm firing starts the service worker  *)
(* after the running timer has expired: the top-level script calls         *)
(* restoreTimerState() without await, and the onAlarm listener it has just *)
(* registered is handed the firing.  Both handlers run to completion.      *)
(***************************************************************************)
InitOverlap ==
    /\ \E R \in 1..MaxDuration, m \in Modes :
         LET idle == <<[duration |-> R, timeLeft |-> R, isRunning |-> FALSE,
                        startTime |-> NULL, mode |-> m]>>
             e == startTimer(idle, 0)
         IN  /\ storage = StorageAfter(idle, e)
             /\ alarm = AlarmAfter(NULL, e)
             /\ started = <<[t0 |-> 0, R |-> R, duration |-> R]>>
             /\ now \in {R * MS_PER_SECOND, R * MS_PER_SECOND + TickMs,
                          R * MS_PER_SECOND + MS_PER_MINUTE}
    /\ notifications = <<>>
    /\ event = Event("start", NoMessage, "")
    /\ effect = NoEffect
    /\ alive = TRUE
    /\ tasks = <<Task(Event("restoreTimerState", NoMessage, "")),
                 Task(Event("handleAlarm", NoMessage, ALARM_NAME))>>
    /\ sent = <<>>
    /\ stopped = FALSE
    /\ owed = FALSE

NextOverlap == StepRead \/ StepWrite \/ StepAlarm \/ StepNotify

SpecOverlap == InitOverlap /\ [][NextOverlap]_vars

(***************************************************************************)
(* Properties.                                                             *)
(***************************************************************************)
Snapshot == getTimerState(storage)

IsFinished(s) ==
    /\ s.isRunning = FALSE
    /\ s.timeLeft = 0
    /\ s.startTime = NULL

IsMessage(ev, type) == ev.handler = "handleMessage" /\ ev.message.type = type

\* the title and body of the completion signal of a mode
IsSignalOf(n, mode) ==
    IF mode = "work"
    THEN n = [title |-> "Work session complete!",
              message |-> "Great job! Time to take a break."]
    ELSE n = [title |-> "Break is over!",
              message |-> "Break finished. Ready to focus again?"]

\* alarms.create('pomodoro-timer', {delayInMinutes: max(r/60, 0.08),
\* periodInMinutes: 1}), in milliseconds
IsCreateFor(op, r) ==
    /\ op.op = "create"
    /\ op.name = "pomodoro-timer"
    /\ op.delayMs = (IF r * 1000 >= 4800 THEN r * 1000 ELSE 4800)
    /\ op.periodMs = 60000

IsClear(op) == op.op = "clear" /\ op.name = "pomodoro-timer"

Finished(s) ==
    [s EXCEPT !.isRunning = FALSE, !.timeLeft = 0, !.startTime = NULL]

----------------------------------------------------------------------------
(* C1 *)
C1_Expired == event.handler # "install" /\ ~Snapshot.isRunning

C1_State ==
    event.handler # "install" =>
        IF Snapshot.isRunning
        THEN notifications = <<>> /\ alarm # NULL
        ELSE /\ IsFinished(Snapshot)
             /\ Len(notifications) = 1
             /\ IsSignalOf(notifications[1], Snapshot.mode)
             /\ alarm = NULL

\* C1: end to end, a started idle timer whose alarm fires every 60 seconds
\* ends Finished with exactly one completion signal, tagged with the stored
\* mode, and with the alarm cleared; it does end, and once it has ended no
\* further firing occurs.
C1_EndToEnd ==
    /\ [](C1_State)
    /\ [][~C1_Expired]_vars
    /\ <>[](C1_Expired)

C1_Witness ==
    /\ C1_Expired
    /\ Len(notifications) = 1
    /\ Snapshot.mode = "break"
    /\ now = 3 * 60000

----------------------------------------------------------------------------
(* C2 *)
\* C2: in every persisted snapshot, isRunning is true exactly when
\* startTime is non-null.
C2_RunningIffAnchored ==
    Snapshot.isRunning <=> (Snapshot.startTime # NULL)

C2_Witness ==
    /\ event.handler = "handleAlarm"
    /\ effect.write # NULL
    /\ Snapshot.isRunning
    /\ Snapshot.startTime = <<now>>
    /\ now > 0

----------------------------------------------------------------------------
(* C3 *)
TimeLeftWithinDuration(s) == s.timeLeft <= s.duration

\* C3: timeLeft never exceeds duration, in the persisted snapshot, in every
\* reply and returned snapshot, and in the snapshot projected at the
\* current and at every later instant.
C3_TimeLeftWithinDuration ==
    /\ TimeLeftWithinDuration(Snapshot)
    /\ \A i \in 1..Len(effect.replies) : TimeLeftWithinDuration(effect.replies[i])
    /\ \A i \in 1..Len(effect.ret) : TimeLeftWithinDuration(effect.ret[i])
    /\ \A k \in 0..(MaxNow \div TickMs) :
          computeTimeLeft(Snapshot, now + k * TickMs) <= Snapshot.duration

C3_Witness ==
    /\ IsMessage(event, "GET_STATE")
    /\ Snapshot.isRunning
    /\ effect.replies[1].timeLeft < Snapshot.timeLeft
    /\ Snapshot.timeLeft < Snapshot.duration

----------------------------------------------------------------------------
(* C4 *)
\* C4: timeLeft is never negative in a persisted snapshot or a reply.
C4_TimeLeftNeverNegative ==
    /\ Snapshot.timeLeft >= 0
    /\ \A i \in 1..Len(effect.replies) : effect.replies[i].timeLeft >= 0
    /\ \A i \in 1..Len(effect.ret) : effect.ret[i].timeLeft >= 0

----------------------------------------------------------------------------
(* C5 *)
\* C5: a restore that finds a running snapshot with no time left writes
\* and returns the Finished snapshot (duration and mode kept), emits
\* exactly one completion signal of the snapshot's mode and makes no
\* alarms call.
C5_RestoreExpired ==
    [][(/\ event'.handler = "restoreTimerState"
        /\ Snapshot.isRunning
        /\ computeTimeLeft(Snapshot, now') <= 0)
       => (/\ storage' = <<Finished(Snapshot)>>
           /\ effect'.ret = <<Finished(Snapshot)>>
           /\ effect'.write = <<Finished(Snapshot)>>
           /\ Len(effect'.notify) = 1
           /\ IsSignalOf(effect'.notify[1], Snapshot.mode)
           /\ notifications' = Append(notifications, effect'.notify[1])
           /\ effect'.alarmOp = NULL
           /\ alarm' = alarm)]_vars

\* 8 minutes were left 10 minutes ago
C5_Witness ==
    /\ event.handler = "restoreTimerState"
    /\ effect.notify # NULL
    /\ IsFinished(Snapshot)
    /\ Snapshot.mode = "break"
    /\ Snapshot.duration = 8 * 60
    /\ now = 10 * 60000
    /\ Len(notifications) = 1

----------------------------------------------------------------------------
(* C6 *)
\* C6: a restore that finds a running snapshot with r > 0 seconds left
\* writes and returns it with timeLeft r and startTime now, still running,
\* emits no signal and creates the alarm with delay max(r/60, 0.08)
\* minutes and period 1 minute.
C6_RestoreRunning ==
    [][(/\ event'.handler = "restoreTimerState"
        /\ Snapshot.isRunning
        /\ computeTimeLeft(Snapshot, now') > 0)
       => LET r == computeTimeLeft(Snapshot, now')
              restored == [Snapshot EXCEPT !.timeLeft = r, !.startTime = <<now'>>]
          IN  /\ restored.isRunning
              /\ storage' = <<restored>>
              /\ effect'.ret = <<restored>>
              /\ effect'.notify = NULL
              /\ notifications' = notifications
              /\ Len(effect'.alarmOp) = 1
              /\ IsCreateFor(effect'.alarmOp[1], r)
              /\ alarm' = <<[delayMs |-> effect'.alarmOp[1].delayMs,
                             periodMs |-> 60000]>>]_vars

\* 10 minutes were left 2 minutes ago: 8 minutes left, 8-minute delay
C6_Witness ==
    /\ event.handler = "restoreTimerState"
    /\ effect.write # NULL
    /\ Snapshot.isRunning
    /\ Snapshot.duration = 10 * 60
    /\ Snapshot.timeLeft = 8 * 60
    /\ Snapshot.startTime = <<now>>
    /\ now = 2 * 60000
    /\ alarm = <<[delayMs |-> 8 * 60000, periodMs |-> 60000]>>

----------------------------------------------------------------------------
(* C7 *)
\* C7: a START handled while the snapshot is running replies with the
\* snapshot as stored, writes nothing, makes no alarms call and leaves the
\* anchor where it was.
C7_StartWhileRunning ==
    [][(IsMessage(event', "START") /\ Snapshot.isRunning)
       => (/\ effect'.replies = <<Snapshot>>
           /\ effect'.write = NULL
           /\ effect'.alarmOp = NULL
           /\ effect'.notify = NULL
           /\ storage' = storage
           /\ alarm' = alarm
           /\ getTimerState(storage').startTime = Snapshot.startTime)]_vars

C7_Witness ==
    /\ IsMessage(event, "START")
    /\ effect.write = NULL
    /\ Snapshot.isRunning
    /\ Snapshot.startTime # <<now>>

----------------------------------------------------------------------------
(* C8 *)
\* seconds elapsed at instant t since the Start in force
SecondsSinceStart(t) == (t - started[1].t0) \div 1000

PauseAfterStart(literal) ==
    (IsMessage(event', "PAUSE") /\ started # NULL)
    => LET R == started[1].R
           e == SecondsSinceStart(now')
           paused == [duration  |-> started[1].duration,
                      timeLeft  |-> IF R - e >= 0 THEN R - e ELSE 0,
                      isRunning |-> FALSE,
                      startTime |-> NULL,
                      mode      |-> Snapshot.mode]
       IN  /\ storage' = <<paused>>
           /\ effect'.replies = <<paused>>
           /\ Len(effect'.alarmOp) = 1
           /\ IsClear(effect'.alarmOp[1])
           /\ alarm' = NULL
           /\ (R = started[1].duration /\ (literal \/ e <= R))
                 => paused.timeLeft = started[1].duration - e

----------------------------------------------------------------------------
(* C9 *)
\* a number that SET_DURATION rejects: non-finite, or floor <= 0
IsRejected(x) == x.kind # "finite" \/ x.tenths < Tenths

\* C9: a SET_DURATION with a rejected duration leaves duration and timeLeft
\* at their values before the call, while setting isRunning=false and
\* startTime=null and clearing the alarm.
C9_RejectedSetDuration ==
    [][(/\ IsMessage(event', "SET_DURATION")
        /\ event'.message.duration # NULL
        /\ IsRejected(event'.message.duration[1]))
       => LET after == getTimerState(storage')
          IN  /\ after.duration = Snapshot.duration
              /\ after.timeLeft = Snapshot.timeLeft
              /\ after.isRunning = FALSE
              /\ after.startTime = NULL
              /\ alarm' = NULL]_vars

----------------------------------------------------------------------------
(* C10 *)
\* C10: GET_STATE writes nothing, makes no alarms call and emits no signal,
\* and replies with the stored snapshot in which timeLeft alone is replaced
\* by the time left at the instant of the call.
C10_GetStateReadOnly ==
    [][IsMessage(event', "GET_STATE")
       => (/\ storage' = storage
           /\ alarm' = alarm
           /\ notifications' = notifications
           /\ effect'.write = NULL
           /\ effect'.alarmOp = NULL
           /\ effect'.notify = NULL
           /\ Len(effect'.replies) = 1
           /\ LET reply == effect'.replies[1]
                  expected == IF Snapshot.isRunning /\ Snapshot.startTime # NULL
                              THEN LET left == Snapshot.timeLeft
                                               - ((now' - Snapshot.startTime[1]) \div 1000)
                                   IN  IF left >= 0 THEN left ELSE 0
                              ELSE Snapshot.timeLeft
              IN  /\ reply.timeLeft = expected
                  /\ reply.duration = Snapshot.duration
                  /\ reply.isRunning = Snapshot.isRunning
                  /\ reply.startTime = Snapshot.startTime
                  /\ reply.mode = Snapshot.mode)]_vars

C10_Witness ==
    /\ IsMessage(event, "GET_STATE")
    /\ Snapshot.isRunning
    /\ effect.replies[1].timeLeft < Snapshot.timeLeft
    /\ effect.replies[1].timeLeft > 0

----------------------------------------------------------------------------
(* C11 *)
\* the time left of snapshot s at instant t, as the claim states it
ProjectedTimeLeft(s, t) ==
    IF s.isRunning = FALSE \/ s.startTime = NULL
    THEN s.timeLeft
    ELSE LET left == s.timeLeft - ((t - s.startTime[1]) \div 1000)
         IN  IF left >= 0 THEN left ELSE 0

\* C11: computeTimeLeft returns timeLeft when isRunning is false or
\* startTime is null, and otherwise max(0, timeLeft - floor((now -
\* startTime)/1000)), for every snapshot and every now >= startTime; the
\* GET_STATE reply carries that value.
C11_ComputeTimeLeft ==
    /\ computeTimeLeft(Snapshot, now) = ProjectedTimeLeft(Snapshot, now)
    /\ \A t \in {i \in ProjInstants : i >= now} :
          computeTimeLeft(Snapshot, t) = ProjectedTimeLeft(Snapshot, t)
    /\ IsMessage(event, "GET_STATE")
          => effect.replies[1].timeLeft = ProjectedTimeLeft(Snapshot, now)

\* a running snapshot read 1.5 s after its anchor: one second is taken off
C11_Witness ==
    /\ IsMessage(event, "GET_STATE")
    /\ Snapshot.isRunning
    /\ Snapshot.startTime # NULL
    /\ now - Snapshot.startTime[1] = 3 * TickMs
    /\ Snapshot.timeLeft = 3
    /\ effect.replies[1].timeLeft = 2

----------------------------------------------------------------------------
(* C12 *)
\* C12: for a fixed snapshot the projected time left is non-increasing in
\* now while the snapshot is running, and the same for every now while it
\* is not.
C12_MonotoneInNow ==
    \A t1, t2 \in {i \in ProjInstants : i >= now} :
        t1 <= t2 =>
            IF Snapshot.isRunning
            THEN computeTimeLeft(Snapshot, t2) <= computeTimeLeft(Snapshot, t1)
            ELSE computeTimeLeft(Snapshot, t2) = computeTimeLeft(Snapshot, t1)

\* a running snapshot whose projection strictly decreases and then stays 0
C12_Witness ==
    /\ Snapshot.isRunning
    /\ Snapshot.startTime = <<0>>
    /\ Snapshot.timeLeft = 2
    /\ event.handler = "tick"
    /\ computeTimeLeft(Snapshot, now) = 0
    /\ computeTimeLeft(Snapshot, now - MS_PER_SECOND) = 1
    /\ computeTimeLeft(Snapshot, now + MS_PER_SECOND) = 0
    /\ now = 2 * MS_PER_SECOND

----------------------------------------------------------------------------
(* C13 *)
\* C13: a START on an idle snapshot (not running, timeLeft > 0) writes and
\* replies the snapshot with isRunning=true and startTime=now, the other
\* fields kept, and creates the alarm 'pomodoro-timer' with delay
\* max(timeLeft/60, 0.08) minutes, which is positive, and period 1 minute.
C13_StartIdle ==
    [][(/\ IsMessage(event', "START")
        /\ Snapshot.isRunning = FALSE
        /\ Snapshot.timeLeft > 0)
       => LET running == [duration  |-> Snapshot.duration,
                          timeLeft  |-> Snapshot.timeLeft,
                          isRunning |-> TRUE,
                          startTime |-> <<now'>>,
                          mode      |-> Snapshot.mode]
          IN  /\ storage' = <<running>>
              /\ effect'.replies = <<running>>
              /\ effect'.notify = NULL
              /\ Len(effect'.alarmOp) = 1
              /\ IsCreateFor(effect'.alarmOp[1], Snapshot.timeLeft)
              /\ effect'.alarmOp[1].delayMs > 0
              /\ alarm' = <<[delayMs |-> effect'.alarmOp[1].delayMs,
                             periodMs |-> 60000]>>]_vars

\* a paused timer with one second left is started again: the delay is the
\* minimum
C13_Witness ==
    /\ IsMessage(event, "START")
    /\ effect.write # NULL
    /\ Snapshot.timeLeft = 1
    /\ Snapshot.duration = 2
    /\ Snapshot.startTime = <<now>>
    /\ alarm = <<[delayMs |-> 4800, periodMs |-> 60000]>>

----------------------------------------------------------------------------
(* C14 *)
\* C14: an alarm 'pomodoro-timer' handled while the snapshot is running
\* with no time left writes the Finished snapshot (duration and mode kept),
\* clears the alarm and emits one completion signal whose title and body
\* are those of the stored mode.
C14_AlarmFinishes ==
    [][(/\ event'.handler = "handleAlarm"
        /\ event'.name = "pomodoro-timer"
        /\ Snapshot.isRunning
        /\ ProjectedTimeLeft(Snapshot, now') <= 0)
       => (/\ storage' = <<Finished(Snapshot)>>
           /\ effect'.write = <<Finished(Snapshot)>>
           /\ Len(effect'.alarmOp) = 1
           /\ IsClear(effect'.alarmOp[1])
           /\ alarm' = NULL
           /\ Len(effect'.notify) = 1
           /\ IsSignalOf(effect'.notify[1], Snapshot.mode)
           /\ notifications' = Append(notifications, effect'.notify[1]))]_vars

\* a break and, before it, a work session have ended on an alarm
C14_Witness ==
    /\ event.handler = "handleAlarm"
    /\ effect.notify # NULL
    /\ IsFinished(Snapshot)
    /\ Snapshot.mode = "break"
    /\ Len(notifications) = 2
    /\ notifications[1].title = "Work session complete!"
    /\ notifications[2].title = "Break is over!"

----------------------------------------------------------------------------
(* C15 *)
\* C15: an alarm 'pomodoro-timer' handled while the snapshot is running
\* with r > 0 seconds left writes it with timeLeft r and startTime now,
\* still running, duration and mode kept, does not clear the alarm and
\* emits no signal.
C15_AlarmReanchors ==
    [][(/\ event'.handler = "handleAlarm"
        /\ event'.name = "pomodoro-timer"
        /\ Snapshot.isRunning
        /\ ProjectedTimeLeft(Snapshot, now') > 0)
       => LET updated == [duration  |-> Snapshot.duration,
                          timeLeft  |-> ProjectedTimeLeft(Snapshot, now'),
                          isRunning |-> TRUE,
                          startTime |-> <<now'>>,
                          mode      |-> Snapshot.mode]
          IN  /\ storage' = <<updated>>
              /\ effect'.write = <<updated>>
              /\ effect'.alarmOp = NULL
              /\ alarm' = alarm
              /\ effect'.notify = NULL
              /\ notifications' = notifications]_vars

\* the alarm fires 1.5 s after the start of a 2 s timer
C15_Witness ==
    /\ event.handler = "handleAlarm"
    /\ effect.write # NULL
    /\ Snapshot.isRunning
    /\ Snapshot.duration = 2
    /\ Snapshot.timeLeft = 1
    /\ Snapshot.startTime = <<now>>
    /\ now = 3 * TickMs
    /\ alarm # NULL

----------------------------------------------------------------------------
(* C16 *)
\* the duration a RESET message m resets to, from snapshot s
ResetTarget(m, s) ==
    IF m.duration = NULL THEN s.duration ELSE m.duration[1].tenths \div Tenths

\* the instants from t to the end of the clock
LaterInstants(t) == {t + k * TickMs : k \in 0..(MaxNow \div TickMs)}

\* C16: RESET with duration d (the current duration when absent) writes
\* and replies {duration: d, timeLeft: d, isRunning: false, startTime:
\* null} with the mode kept and clears the alarm, also when nothing was
\* running; the time left projected from that snapshot is d at every later
\* instant, and while the snapshot is not running the passage of time,
\* alarms, restores and the requests other than START, RESET and
\* SET_DURATION leave it as it is.
C16_Reset ==
    /\ [][IsMessage(event', "RESET")
          => LET d == ResetTarget(event'.message, Snapshot)
                 reset == [duration  |-> d,
                           timeLeft  |-> d,
                           isRunning |-> FALSE,
                           startTime |-> NULL,
                           mode      |-> Snapshot.mode]
             IN  /\ storage' = <<reset>>
                 /\ effect'.replies = <<reset>>
                 /\ Len(effect'.alarmOp) = 1
                 /\ IsClear(effect'.alarmOp[1])
                 /\ alarm' = NULL
                 /\ \A t \in LaterInstants(now') :
                       computeTimeLeft(getTimerState(storage'), t) = d]_vars
    /\ [][(/\ Snapshot.isRunning = FALSE
           /\ ~IsMessage(event', "START")
           /\ ~IsMessage(event', "RESET")
           /\ ~IsMessage(event', "SET_DURATION"))
          => /\ getTimerState(storage').timeLeft = Snapshot.timeLeft
             /\ getTimerState(storage').isRunning = FALSE
             /\ computeTimeLeft(getTimerState(storage'), now')
                  = Snapshot.timeLeft]_vars

\* a RESET to 2 s of an idle timer that had no alarm
C16_Witness ==
    /\ IsMessage(event, "RESET")
    /\ event.message.duration = <<FromInt(2)>>
    /\ Snapshot.timeLeft = 2
    /\ effect.alarmOp = <<AlarmsClear>>
    /\ notifications = <<>>
    /\ now = 2 * TickMs

----------------------------------------------------------------------------
(* C17 *)
\* a finite number whose floor is > 0: at least 1
IsAccepted(x) == x.kind = "finite" /\ x.tenths >= Tenths

\* the largest integer that is <= the finite number x
FloorOf(x) == CHOOSE i \in (0 - MaxDuration - 1)..(MaxDuration + 1) :
                  i * Tenths <= x.tenths /\ x.tenths < (i + 1) * Tenths

\* C17: a SET_DURATION with a finite duration whose floor is > 0 writes
\* and replies {duration: floor, timeLeft: floor, isRunning: false,
\* startTime: null} with the mode kept and clears the alarm, whatever the
\* snapshot before; without a duration it does so with the current
\* duration.
C17_SetDurationAccepted ==
    [][IsMessage(event', "SET_DURATION")
       => LET m == event'.message
              Configured(d) == [duration  |-> d,
                                timeLeft  |-> d,
                                isRunning |-> FALSE,
                                startTime |-> NULL,
                                mode      |-> Snapshot.mode]
              Done(d) == /\ storage' = <<Configured(d)>>
                         /\ effect'.replies = <<Configured(d)>>
                         /\ Len(effect'.alarmOp) = 1
                         /\ IsClear(effect'.alarmOp[1])
                         /\ alarm' = NULL
                         /\ effect'.notify = NULL
          IN  /\ (m.duration # NULL /\ IsAccepted(m.duration[1]))
                    => Done(FloorOf(m.duration[1]))
              /\ m.duration = NULL => Done(Snapshot.duration)]_vars

\* 1.7 is stored as 1, after a timer has finished
C17_Witness ==
    /\ IsMessage(event, "SET_DURATION")
    /\ event.message.duration = <<Finite(Tenths + 7)>>
    /\ Snapshot.duration = 1
    /\ Snapshot.timeLeft = 1
    /\ Snapshot.isRunning = FALSE
    /\ Len(notifications) = 1
    /\ alarm = NULL

----------------------------------------------------------------------------
(* C18 *)
\* C18: SET_MODE changes the mode field alone, also while the timer is
\* running: duration, timeLeft, isRunning and startTime stay as stored, no
\* alarms call is made and no signal emitted; without a mode the current
\* mode is written.
C18_SetModeOnlyMode ==
    [][IsMessage(event', "SET_MODE")
       => LET after == getTimerState(storage')
              mode == IF event'.message.mode = NULL THEN Snapshot.mode
                      ELSE event'.message.mode[1]
          IN  /\ after.duration = Snapshot.duration
              /\ after.timeLeft = Snapshot.timeLeft
              /\ after.isRunning = Snapshot.isRunning
              /\ after.startTime = Snapshot.startTime
              /\ after.mode = mode
              /\ effect'.write = <<after>>
              /\ effect'.replies = <<after>>
              /\ effect'.alarmOp = NULL
              /\ alarm' = alarm
              /\ effect'.notify = NULL
              /\ notifications' = notifications]_vars

\* the mode is changed to break 0.5 s after the start
C18_Witness ==
    /\ IsMessage(event, "SET_MODE")
    /\ event.message.mode = <<"break">>
    /\ Snapshot.mode = "break"
    /\ Snapshot.isRunning
    /\ Snapshot.startTime = <<now - TickMs>>
    /\ alarm # NULL

----------------------------------------------------------------------------
(* C19 *)
\* a handler invocation that only read the store
OnlyRead ==
    /\ effect'.write = NULL
    /\ effect'.alarmOp = NULL
    /\ effect'.notify = NULL
    /\ storage' = storage
    /\ alarm' = alarm
    /\ notifications' = notifications

\* C19: a START on a snapshot with timeLeft <= 0 and a PAUSE on a snapshot
\* that is not running reply with the stored snapshot and write nothing,
\* make no alarms call and emit no signal.
C19_NoOps ==
    [][(\/ IsMessage(event', "START") /\ Snapshot.timeLeft <= 0
        \/ IsMessage(event', "PAUSE") /\ Snapshot.isRunning = FALSE)
       => (OnlyRead /\ effect'.replies = <<Snapshot>>)]_vars

\* a PAUSE of a finished timer
C19_Witness ==
    /\ IsMessage(event, "PAUSE")
    /\ effect.write = NULL
    /\ IsFinished(Snapshot)
    /\ Len(notifications) = 1
    /\ effect.replies = <<Snapshot>>

\* a START of a finished timer
C19_WitnessStart ==
    /\ IsMessage(event, "START")
    /\ effect.write = NULL
    /\ IsFinished(Snapshot)

----------------------------------------------------------------------------
(* C20 *)
\* C20: while the stored snapshot is not running, an alarm firing and a
\* restore write nothing, make no alarms call and emit no signal, and the
\* passage of time changes neither the store nor the time left projected
\* from it.
C20_NotRunningNoOps ==
    [][(/\ Snapshot.isRunning = FALSE
        /\ event'.handler \in {"handleAlarm", "restoreTimerState", "tick"})
       => (/\ OnlyRead
           /\ computeTimeLeft(getTimerState(storage'), now')
                = Snapshot.timeLeft)]_vars

\* an alarm is handled one second after a pause with one second left
C20_Witness ==
    /\ event.handler = "handleAlarm"
    /\ event.name = ALARM_NAME
    /\ Snapshot.isRunning = FALSE
    /\ Snapshot.timeLeft = 1
    /\ Snapshot.duration = 2
    /\ now = 3 * MS_PER_SECOND
    /\ notifications = <<>>

----------------------------------------------------------------------------
(* C21 *)
\* C21: an alarm whose name is not 'pomodoro-timer' is handled without any
\* read or write of the store, any alarms call or any signal, whatever the
\* stored snapshot (also when it is running with no time left).
C21_ForeignAlarm ==
    [][(event'.handler = "handleAlarm" /\ event'.name # "pomodoro-timer")
       => (effect'.reads = 0 /\ OnlyRead)]_vars

\* a foreign alarm while the timer is running and has expired
C21_Witness ==
    /\ event.handler = "handleAlarm"
    /\ event.name = OTHER_ALARM_NAME
    /\ Snapshot.isRunning
    /\ Snapshot.timeLeft = 1
    /\ computeTimeLeft(Snapshot, now) = 0
    /\ alarm # NULL
    /\ notifications = <<>>

----------------------------------------------------------------------------
(* C22 *)
SnapshotFields == {"duration", "timeLeft", "isRunning", "startTime", "mode"}

\* C22: every message handled by handleMessage, of each of the six types
\* and of any other type, in every state, is answered by exactly one
\* response, which carries a snapshot with all five fields.
C22_OneReply ==
    [][event'.handler = "handleMessage"
       => (/\ Len(effect'.replies) = 1
           /\ DOMAIN effect'.replies[1] = SnapshotFields)]_vars

\* a START that does nothing (the timer is running) is answered
C22_Witness ==
    /\ IsMessage(event, "START")
    /\ effect.write = NULL
    /\ Snapshot.isRunning
    /\ Len(effect.replies) = 1
    /\ now = 2 * TickMs

----------------------------------------------------------------------------
(* C23 *)
MessageTypes ==
    {"GET_STATE", "START", "PAUSE", "RESET", "SET_MODE", "SET_DURATION"}

\* C23: a message of a type that is none of the six is answered with the
\* snapshot as stored (not recomputed); nothing is written, no alarms call
\* is made and no signal emitted.
C23_UnknownType ==
    [][(/\ event'.handler = "handleMessage"
        /\ event'.message.type \notin MessageTypes)
       => (OnlyRead /\ effect'.replies = <<Snapshot>>)]_vars

\* an unknown message one second after the start: the reply is not
\* recomputed
C23_Witness ==
    /\ IsMessage(event, "UNKNOWN")
    /\ Snapshot.isRunning
    /\ Snapshot.timeLeft = 2
    /\ computeTimeLeft(Snapshot, now) = 1
    /\ effect.replies = <<Snapshot>>

----------------------------------------------------------------------------
(* C24 *)
\* C24: after any sequence of requests (RESET with any integer duration,
\* SET_DURATION with any number), the stored duration is a positive
\* integer.
C24_DurationPositive ==
    /\ Snapshot.duration \in Int
    /\ Snapshot.duration > 0

----------------------------------------------------------------------------
(* C25 *)
\* C25: the hook's setDuration sends no SET_DURATION message when the
\* duration is zero, negative, NaN or infinite, and for a positive duration
\* that is not an integer it sends the floor of the duration.
C25_HookValidates ==
    [][event'.handler = "useTimer.setDuration"
       => LET d == event'.message.duration[1] IN
          /\ (d.kind # "finite" \/ d.tenths <= 0) => sent' = <<>>
          /\ (d.kind = "finite" /\ d.tenths > Tenths /\ d.tenths % Tenths # 0)
                => sent' = <<[type |-> "SET_DURATION",
                              duration |-> <<[kind |-> "finite",
                                              tenths |-> FloorOf(d) * Tenths]>>,
                              mode |-> <<>>]>>]_vars

----------------------------------------------------------------------------
(* C26 *)
\* the handler invocations in flight that have run their first step
Begun == {i \in 1..Len(tasks) : tasks[i].pc # "read"}

\* C26: handlers run atomically: while a handler has run some of its steps
\* and not yet all of them, no step of another handler runs, so at no time
\* have two handlers both begun and not finished.
C26_HandlersAtomic == Cardinality(Begun) <= 1

----------------------------------------------------------------------------
(* C27 *)
\* the restore of this instance still has its read, write or alarms call
\* to do
RestorePending ==
    \E i \in 1..Len(tasks) :
        /\ tasks[i].ev.handler = "restoreTimerState"
        /\ tasks[i].pc \in {"read", "write", "alarm"}

\* C27: each start of the service worker runs restoreTimerState exactly
\* once, and no message or alarm handler reads or writes the store before
\* the restore has done its read, its write and its alarms call.
C27_RestoreFirst ==
    /\ Cardinality({i \in 1..Len(tasks) :
                       tasks[i].ev.handler = "restoreTimerState"}) <= 1
    /\ RestorePending
          => \A i \in 1..Len(tasks) :
                tasks[i].ev.handler # "restoreTimerState"
                   => tasks[i].pc = "read"

----------------------------------------------------------------------------
(* C28 *)
\* C28: once a PAUSE, RESET or SET_DURATION has been answered with
\* isRunning=false, the stored snapshot is not running until a START that
\* arrives later is handled, also when an alarm handler or the restore had
\* read the store before.
C28_NoLostUpdate ==
    [][(stopped /\ ~Snapshot.isRunning)
       => ~getTimerState(storage').isRunning]_vars

----------------------------------------------------------------------------
(* C29 *)
\* C29: whenever the service worker is terminated, once it has started
\* again and its restore is complete (and no handler is in flight), every
\* expiry that was stored has had its completion signal emitted.
C29_CompletionReported == Quiescent => ~owed

----------------------------------------------------------------------------
(* C30 *)
\* the time left at instant t of a timer started at 0 with the stored
\* duration and never re-anchored
ReferenceTimeLeft(t) ==
    LET left == Snapshot.duration - (t \div 1000)
    IN  IF left >= 0 THEN left ELSE 0

Distance(a, b) == IF a >= b THEN a - b ELSE b - a

\* C30: for a timer started at 0 with R seconds, the time left projected
\* from the stored snapshot at the current and at every later instant is
\* within 1 second of max(0, R - floor(t/1000)), however many alarms and
\* restores have re-anchored the snapshot.
C30_NoCompoundingDrift ==
    \A t \in LaterInstants(now) :
        Distance(computeTimeLeft(Snapshot, t), ReferenceTimeLeft(t)) <= 1

----------------------------------------------------------------------------
(* C31 *)
\* C31: a running timer to which no request arrives, and whose alarm keeps
\* firing while it is registered, eventually is stored Finished
\* (isRunning=false, timeLeft=0) with a completion signal emitted and the
\* alarm cleared.
C31_EventuallyFinished ==
    Snapshot.isRunning
        ~> (/\ IsFinished(Snapshot)
            /\ notifications # <<>>
            /\ alarm = NULL)

\* a timer of more than two minutes has finished on its third firing
C31_Witness ==
    /\ event.handler = "handleAlarm"
    /\ IsFinished(Snapshot)
    /\ Snapshot.duration > 2 * 60
    /\ Len(notifications) = 1
    /\ alarm = NULL
    /\ now >= 3 * MS_PER_MINUTE

----------------------------------------------------------------------------
(* C32 *)
\* C32: an alarm 'pomodoro-timer' handled right after another one, at the
\* same instant, changes neither the stored snapshot nor the alarm nor the
\* number of signals emitted, whatever the state the first one found.
C32_AlarmIdempotent ==
    [][(/\ event.handler = "handleAlarm"
        /\ event.name = "pomodoro-timer"
        /\ event'.handler = "handleAlarm"
        /\ event'.name = "pomodoro-timer"
        /\ now' = now)
       => (/\ storage' = storage
           /\ alarm' = alarm
           /\ Len(notifications') = Len(notifications))]_vars

\* a firing one second after the start has re-anchored the snapshot; the
\* next firing at this instant finds it so
C32_Witness ==
    /\ event.handler = "handleAlarm"
    /\ event.name = ALARM_NAME
    /\ effect.write = <<Snapshot>>
    /\ Snapshot.isRunning
    /\ Snapshot.timeLeft = 1
    /\ Snapshot.duration = 2
    /\ Snapshot.startTime = <<now>>
    /\ now = 2 * TickMs
    /\ handleAlarm(storage, now, ALARM_NAME).write = <<Snapshot>>

----------------------------------------------------------------------------
(* C33 *)
\* C33: every write of the snapshot that changes timeLeft also sets
\* startTime, to the instant of the write when the snapshot written is
\* running and to null otherwise; and every write that sets startTime to a
\* new non-null value stores as timeLeft the time left projected at that
\* instant from the snapshot before.
C33_WrittenTogether ==
    [][effect'.write # NULL
       => LET w == effect'.write[1] IN
          /\ storage' = <<w>>
          /\ w.timeLeft # Snapshot.timeLeft
                => w.startTime = (IF w.isRunning THEN <<now'>> ELSE <<>>)
          /\ (w.startTime # <<>> /\ w.startTime # Snapshot.startTime)
                => /\ w.startTime = <<now'>>
                   /\ w.timeLeft = ProjectedTimeLeft(Snapshot, now')]_vars

\* a restore one second after the start has moved both fields
C33_Witness ==
    /\ event.handler = "restoreTimerState"
    /\ effect.write = <<Snapshot>>
    /\ Snapshot.isRunning
    /\ Snapshot.timeLeft = 1
    /\ Snapshot.duration = 2
    /\ Snapshot.startTime = <<now>>
    /\ now = 2 * TickMs

----------------------------------------------------------------------------
(* C34 *)
\* a snapshot without its mode
Countdown(s) ==
    [duration |-> s.duration, timeLeft |-> s.timeLeft,
     isRunning |-> s.isRunning, startTime |-> s.startTime]

\* what a handler invocation did, without the mode written or returned and
\* without the text of the notification
ModeErased(e) ==
    [reads   |-> e.reads,
     write   |-> IF e.write = NULL THEN NULL ELSE <<Countdown(e.write[1])>>,
     alarmOp |-> e.alarmOp,
     signals |-> Len(e.notify),
     ret     |-> IF e.ret = NULL THEN NULL ELSE <<Countdown(e.ret[1])>>,
     replies |-> [i \in 1..Len(e.replies) |-> Countdown(e.replies[i])]]

\* the same storage content with mode m
WithMode(st, m) == <<[getTimerState(st) EXCEPT !.mode = m]>>

\* the same invocation with the SET_MODE payload p
WithModePayload(ev, p) ==
    IF ev.handler = "handleMessage" /\ ev.message.type = "SET_MODE"
    THEN [ev EXCEPT !.message.mode = p]
    ELSE ev

\* the SET_MODE payloads an invocation could have carried instead
ModePayloads(ev) ==
    IF ev.handler = "handleMessage" /\ ev.message.type = "SET_MODE"
    THEN Opt(Modes)
    ELSE {NULL}

\* C34: mode does not influence the countdown.  Whatever the stored mode
\* and whatever the SET_MODE payload, each handler invocation, at the same
\* instant and on a snapshot with the same duration, timeLeft, isRunning
\* and startTime, writes the same four fields, does the same alarms call
\* and shows the same number of notifications; so two executions that
\* differ only in mode agree on all of these after every step.
C34_ModeNonInterference ==
    [][event'.handler \in {"handleMessage", "handleAlarm", "restoreTimerState"}
       => \A m \in Modes, p \in ModePayloads(event') :
             ModeErased(HandlerEffect(WithModePayload(event', p),
                                      WithMode(storage, m), now'))
               = ModeErased(effect')]_vars

\* a restore has finished a break timer: the same restore of the work
\* timer shows a notification with another text
C34_Witness ==
    /\ event.handler = "restoreTimerState"
    /\ IsFinished(Snapshot)
    /\ Snapshot.mode = "break"
    /\ effect.notify = <<showTimerNotification("break")>>
    /\ effect.notify # <<showTimerNotification("work")>>
    /\ notifications # <<>>
    /\ notifications[Len(notifications)].title = "Break is over!"

----------------------------------------------------------------------------
(* C35 *)
\* C35: in every quiescent state (no handler invocation in flight, the
\* restore of the last process start included), a running snapshot has the
\* alarm 'pomodoro-timer' registered.
C35_RunningImpliesArmed ==
    (Quiescent /\ Snapshot.isRunning) => alarm # NULL

----------------------------------------------------------------------------
(* C36 *)
\* C36: in every state between handler invocations, a snapshot that is not
\* running has no alarm registered, however the timer was stopped.
C36_NoStraySchedule ==
    (Quiescent /\ ~Snapshot.isRunning) => alarm = NULL

----------------------------------------------------------------------------
(* C37 *)
\* C37: when an alarm firing is handled while the restore of the same
\* process start is in progress and the stored running timer has expired,
\* the two handlers, once both are complete, have shown exactly one
\* notification and left the snapshot finished and the alarm cleared.
C37_OneSignalUnderOverlap ==
    tasks = <<>>
      => /\ Len(notifications) = 1
         /\ IsFinished(Snapshot)
         /\ alarm = NULL

----------------------------------------------------------------------------
(* C38 *)
\* C38: every step that takes the stored snapshot from running to finished
\* (isRunning false, timeLeft 0) shows exactly one notification, whether
\* the step is an alarm firing, a restore or a PAUSE handled after the
\* time has run out.
C38_FinishSignalled ==
    [][(/\ \/ event'.handler \in {"handleAlarm", "restoreTimerState"}
           \/ IsMessage(event', "PAUSE")
        /\ Snapshot.isRunning
        /\ IsFinished(getTimerState(storage')))
       => Len(notifications') = Len(notifications) + 1]_vars

----------------------------------------------------------------------------
(* C39 *)
\* C39: with handlers run one at a time, every stored snapshot that is
\* running has timeLeft > 0.
C39_NeverRunningAtZero == Snapshot.isRunning => Snapshot.timeLeft > 0

\* an alarm firing has re-anchored a running timer with its last second left
C39_Witness ==
    /\ event.handler = "handleAlarm"
    /\ effect.write = <<Snapshot>>
    /\ Snapshot.isRunning
    /\ Snapshot.timeLeft = 1
    /\ Snapshot.startTime = <<now>>
    /\ now = 3 * TickMs

----------------------------------------------------------------------------
(* C40 *)
\* C40: the stored timeLeft never increases across a step of any handler
\* other than that of a RESET or SET_DURATION message, and a START leaves
\* the stored timeLeft as it was (after a PAUSE, the paused value).
C40_NeverAddedBack ==
    [][/\ (~IsMessage(event', "RESET") /\ ~IsMessage(event', "SET_DURATION"))
          => getTimerState(storage').timeLeft <= Snapshot.timeLeft
       /\ IsMessage(event', "START")
          => getTimerState(storage').timeLeft = Snapshot.timeLeft]_vars

====
